---------------------------- MODULE Spec2Model ----------------------------
(***************************************************************************)
(* Namma_DVK (src/app.py): a Flask directory-and-booking application over  *)
(* a MySQL schema.  A string is the sequence of its pieces: a piece is one *)
(* character or, for a word the program compares as a whole (a sector     *)
(* key), that word.  str.strip() and the server's string-to-DECIMAL        *)
(* conversion are computed on these sequences.  Python's None and an       *)
(* absent form field are the two markers None and Missing.                 *)
(***************************************************************************)
EXTENDS Integers, Sequences, FiniteSets, TLC

VARIABLES
    sqlStrict,   \* the server's sql_mode: TRUE = STRICT_TRANS_TABLES
    users,       \* table users: sequence of rows in insertion order
    admins,      \* table admins
    bookings,    \* table bookings
    listings,    \* sector key -> rows of that sector's table
    nextId,      \* sector key -> AUTO_INCREMENT counter of that table
    session,     \* the client's Flask session (a record of its keys)
    req,         \* the request handled last
    resp,        \* the response to it
    notif,       \* the last run of send_notifications
    db_ready,    \* the module global _db_ready
    pc,          \* per request thread: its position in ensure_db
    initRuns,    \* how many times init_db has been started
    initActive   \* threads that are inside init_db

vars == <<sqlStrict, users, admins, bookings, listings, nextId, session,
          req, resp, notif, db_ready, pc, initRuns, initActive>>

-----------------------------------------------------------------------------
(* Bounds of the model *)

MaxBookings == 2
MaxUsers == 2
MaxListings == 2
MaxRequests == 2

-----------------------------------------------------------------------------
(* Python values *)

None == <<"None">>
Missing == <<"Missing">>

\* `not v` is False exactly for a non-empty string
Truthy(v) == v # None /\ v # <<>>

\* v or None
OrNone(v) == IF Truthy(v) THEN v ELSE None

RECURSIVE LStrip(_)
LStrip(s) == IF s # <<>> /\ Head(s) = " " THEN LStrip(Tail(s)) ELSE s

RECURSIVE RStrip(_)
RStrip(s) ==
    IF s # <<>> /\ s[Len(s)] = " " THEN RStrip(SubSeq(s, 1, Len(s) - 1)) ELSE s

\* str.strip()
Strip(s) == RStrip(LStrip(s))

\* request.form.get(key, default)
FormGet(form, key, default) == IF form[key] = Missing THEN default ELSE form[key]

SECTORS ==
    << <<"hotel", "Hotel">>,
       <<"event_management", "Event Management">>,
       <<"construction", "Construction">>,
       <<"hospital", "Hospital">>,
       <<"medical", "Medical">>,
       <<"electrical_shop", "Electrical Shop">>,
       <<"mechanical_workshop", "Mechanical Workshop">>,
       <<"car_bike_accessories", "Car & Bike Accessories">>,
       <<"beauty_parlor", "Beauty Parlor">>,
       <<"departmental_store", "Departmental Store">> >>

\* the keys of SECTOR_TABLES
SECTOR_TABLES == {<<SECTORS[i][1]>> : i \in 1..Len(SECTORS)}

-----------------------------------------------------------------------------
(* The store: what a DECIMAL(p,d) column does with a string parameter *)

Digits == {"0", "1", "2", "3", "4", "5", "6", "7", "8", "9"}

DigitVal(c) ==
    CASE c = "0" -> 0 [] c = "1" -> 1 [] c = "2" -> 2 [] c = "3" -> 3
      [] c = "4" -> 4 [] c = "5" -> 5 [] c = "6" -> 6 [] c = "7" -> 7
      [] c = "8" -> 8 [] c = "9" -> 9

RECURSIVE Pow10(_)
Pow10(n) == IF n = 0 THEN 1 ELSE 10 * Pow10(n - 1)

RECURSIVE IntVal(_)
IntVal(s) ==
    IF s = <<>> THEN 0
    ELSE 10 * IntVal(SubSeq(s, 1, Len(s) - 1)) + DigitVal(s[Len(s)])

\* the longest prefix of s that is made of digits
RECURSIVE DigitPrefix(_)
DigitPrefix(s) ==
    IF s # <<>> /\ Head(s) \in Digits THEN <<Head(s)>> \o DigitPrefix(Tail(s))
    ELSE <<>>

\* The leading numeric part of s, as [int, frac, rest]: digits, then
\* optionally a point and digits.
NumericPrefix(s) ==
    LET ip == DigitPrefix(s)
        r1 == SubSeq(s, Len(ip) + 1, Len(s))
        fp == IF r1 # <<>> /\ Head(r1) = "." THEN DigitPrefix(Tail(r1)) ELSE <<>>
        r2 == IF r1 # <<>> /\ Head(r1) = "."
              THEN SubSeq(r1, Len(fp) + 2, Len(r1)) ELSE r1
    IN [int |-> ip, frac |-> fp, rest |-> r2]

\* s is a decimal numeral: at least one digit and nothing after the number
IsDecimalLiteral(s) ==
    LET n == NumericPrefix(s) IN n.rest = <<>> /\ Len(n.int) + Len(n.frac) > 0

\* The number at the head of s as a DECIMAL with d places:
\* [units, frac] stands for units + frac / 10^d, rounded half up.
Decimal(s, d) ==
    LET n == NumericPrefix(s)
        kept == SubSeq(n.frac, 1, IF Len(n.frac) < d THEN Len(n.frac) ELSE d)
        up == IF Len(n.frac) > d /\ DigitVal(n.frac[d + 1]) >= 5 THEN 1 ELSE 0
        frac == IntVal(kept) * Pow10(d - Len(kept)) + up
    IN IF frac = Pow10(d) THEN [units |-> IntVal(n.int) + 1, frac |-> 0]
       ELSE [units |-> IntVal(n.int), frac |-> frac]

\* a > b for two stored decimals of the same column
DecimalGreater(a, b) ==
    a.units > b.units \/ (a.units = b.units /\ a.frac > b.frac)

\* NULL in a DECIMAL column
SqlNull == [null |-> TRUE]

\* A string bound to a DECIMAL(p,d) column.  Strict mode refuses a value
\* that is not a number or is out of range (errors 1366, 1264); otherwise
\* the server stores the leading number, clamped to the column's range.
StoreDecimal(v, p, d, strict) ==
    LET x == Decimal(v, d)
        over == x.units >= Pow10(p - d)
        max == [units |-> Pow10(p - d) - 1, frac |-> Pow10(d) - 1]
    IN IF v = None THEN [ok |-> TRUE, val |-> SqlNull]
       ELSE IF ~IsDecimalLiteral(v) \/ over
       THEN IF strict THEN [ok |-> FALSE, val |-> SqlNull]
            ELSE [ok |-> TRUE, val |-> IF over THEN max ELSE x]
       ELSE [ok |-> TRUE, val |-> x]

LAT_PRECISION == 10
LAT_SCALE == 7
RATING_PRECISION == 2
RATING_SCALE == 1

-----------------------------------------------------------------------------
(* Responses *)

NoResp == [status |-> 0, flashes |-> <<>>, to |-> "none", sector |-> None,
           page |-> "none", rows |-> <<>>]

\* redirect(url_for(endpoint)) after the flashes
Redirect(endpoint, flashes) ==
    [status |-> 302, flashes |-> flashes, to |-> endpoint, sector |-> None,
     page |-> "none", rows |-> <<>>]

\* redirect(url_for(endpoint, sector=sector_key)) after the flashes
RedirectSector(endpoint, sector_key, flashes) ==
    [status |-> 302, flashes |-> flashes, to |-> endpoint, sector |-> sector_key,
     page |-> "none", rows |-> <<>>]

\* render_template(page)
Render(page) ==
    [status |-> 200, flashes |-> <<>>, to |-> "none", sector |-> None,
     page |-> page, rows |-> <<>>]

\* render_template(page, rows=rows) for the sector sector_key
RenderRows(page, sector_key, rows) ==
    [status |-> 200, flashes |-> <<>>, to |-> "none", sector |-> sector_key,
     page |-> page, rows |-> rows]

\* an exception that no handler catches
ServerError ==
    [status |-> 500, flashes |-> <<>>, to |-> "none", sector |-> None,
     page |-> "none", rows |-> <<>>]


-----------------------------------------------------------------------------
(* The optional collaborators.  env is the set of environment values that  *)
(* are set and non-empty; a call is the collaborator's behaviour at this   *)
(* request: "ok", or "raise" for any exception of the external call.       *)

SheetKeys == {"GOOGLE_SHEETS_CREDENTIALS", "GOOGLE_SHEET_ID"}
EmailKeys == {"SMTP_HOST", "SMTP_PORT", "SMTP_USER", "SMTP_PASS", "SMTP_FROM",
              "NOTIFY_EMAIL"}
SmsKeys == {"TWILIO_ACCOUNT_SID", "TWILIO_AUTH_TOKEN", "TWILIO_FROM",
            "NOTIFY_MOBILE"}

\* a notifier that returned without trying its external call
NotAttempted == [ret |-> FALSE, attempted |-> FALSE, raised |-> FALSE]

\* a notifier that was never entered
NotRun == [ret |-> FALSE, attempted |-> FALSE, raised |-> FALSE]

\* try: <external call>; return True / except Exception: return False
TryCall(call) ==
    IF call = "ok" THEN [ret |-> TRUE, attempted |-> TRUE, raised |-> FALSE]
    ELSE [ret |-> FALSE, attempted |-> TRUE, raised |-> FALSE]

write_to_google_sheet(env, call) ==
    IF ~("GOOGLE_SHEETS_CREDENTIALS" \in env) \/ ~("GOOGLE_SHEET_ID" \in env)
    THEN NotAttempted
    ELSE TryCall(call)

\* send_email_notification with any() for all()
send_email_notification_any(env, call) ==
    IF ~(\E k \in EmailKeys : k \in env) THEN NotAttempted ELSE TryCall(call)

send_email_notification(env, call) ==
    IF ~(\A k \in EmailKeys : k \in env) THEN NotAttempted ELSE TryCall(call)

send_sms_notification(env, call) ==
    IF ~(\A k \in SmsKeys : k \in env) THEN NotAttempted ELSE TryCall(call)

\* Both sub-notifiers are called, the email one first; an exception of
\* either would leave send_notifications through its caller.
send_notifications(env, smtpCall, twilioCall) ==
    LET e == send_email_notification(env, smtpCall) IN
    IF e.raised
    THEN [ret |-> FALSE, raised |-> TRUE, email |-> e, sms |-> NotRun,
          env |-> env, smtpCall |-> smtpCall, twilioCall |-> twilioCall]
    ELSE LET s == send_sms_notification(env, twilioCall) IN
         [ret |-> ~s.raised /\ (e.ret \/ s.ret),
          raised |-> s.raised, email |-> e, sms |-> s,
          env |-> env, smtpCall |-> smtpCall, twilioCall |-> twilioCall]

NoNotif == [ret |-> FALSE, raised |-> FALSE, email |-> NotRun, sms |-> NotRun,
            env |-> {}, smtpCall |-> "none", twilioCall |-> "none"]

Calls == {"ok", "raise"}

\* The collaborators as a request finds them: each one not configured (one
\* of its values absent), configured and working, or configured and failing.
Modes == {"off", "ok", "raise"}

ModeEnv(keys, dropped, mode) == IF mode = "off" THEN keys \ {dropped} ELSE keys

ModeCall(mode) == IF mode = "raise" THEN "raise" ELSE "ok"

Worlds ==
    { [env |-> ModeEnv(SheetKeys, "GOOGLE_SHEET_ID", ms)
                 \cup ModeEnv(EmailKeys, "SMTP_PASS", me)
                 \cup ModeEnv(SmsKeys, "NOTIFY_MOBILE", mt),
       sheetCall |-> ModeCall(ms), smtpCall |-> ModeCall(me),
       twilioCall |-> ModeCall(mt)] : ms \in Modes, me \in Modes, mt \in Modes }

NoWorld == [env |-> {}, sheetCall |-> "none", smtpCall |-> "none",
            twilioCall |-> "none"]

-----------------------------------------------------------------------------
(* book() *)

FillAllFields == <<"Please fill all fields.", "error">>
LocationRequired ==
    <<"Live location is required. Please allow location access.", "error">>
SheetSaved == <<"Booking saved to Google Sheet.", "success">>
SheetNotSaved == <<"Booking saved locally (Google Sheet not configured).", "warning">>
NotificationSent == <<"Notification sent.", "success">>
NotificationNotSent == <<"Notification not sent (email/SMS not configured).", "warning">>

\* the values book() reads from the form
BookFields(form) ==
    [name |-> Strip(FormGet(form, "name", <<>>)),
     mobile |-> Strip(FormGet(form, "mobile", <<>>)),
     address |-> Strip(FormGet(form, "address", <<>>)),
     sector_key |-> Strip(FormGet(form, "sector", <<>>)),
     latitude |-> FormGet(form, "latitude", None),
     longitude |-> FormGet(form, "longitude", None),
     geo_address |-> OrNone(Strip(FormGet(form, "geo_address", <<>>)))]

\* book_reject with the second validation reading `if not latitude:`
book_reject_latitude_only(f) ==
    IF ~Truthy(f.name) \/ ~Truthy(f.mobile) \/ ~Truthy(f.address)
       \/ f.sector_key \notin SECTOR_TABLES
    THEN Redirect("book", <<FillAllFields>>)
    ELSE IF ~Truthy(f.latitude)
    THEN Redirect("book", <<LocationRequired>>)
    ELSE NoResp

\* The two validations of book(): the rejection, or NoResp when the
\* submission passes both.
book_reject(f) ==
    IF ~Truthy(f.name) \/ ~Truthy(f.mobile) \/ ~Truthy(f.address)
       \/ f.sector_key \notin SECTOR_TABLES
    THEN Redirect("book", <<FillAllFields>>)
    ELSE IF ~Truthy(f.latitude) \/ ~Truthy(f.longitude)
    THEN Redirect("book", <<LocationRequired>>)
    ELSE NoResp

\* INSERT INTO bookings ...; commit.  latitude and longitude are
\* DECIMAL(10,7) columns; the id is the table's AUTO_INCREMENT.
InsertBooking(table, f, strict) ==
    LET lat == StoreDecimal(f.latitude, LAT_PRECISION, LAT_SCALE, strict)
        lon == StoreDecimal(f.longitude, LAT_PRECISION, LAT_SCALE, strict)
    IN [ok |-> lat.ok /\ lon.ok,
        table |-> Append(table,
                    [id |-> Len(table) + 1, name |-> f.name, mobile |-> f.mobile,
                     address |-> f.address, sector_key |-> f.sector_key,
                     latitude |-> lat.val, longitude |-> lon.val,
                     geo_address |-> f.geo_address])]

\* the two advisories after the insert, then the redirect
book_done(sheet_ok, notify_ok) ==
    Redirect("book",
        << IF sheet_ok THEN SheetSaved ELSE SheetNotSaved,
           IF notify_ok THEN NotificationSent ELSE NotificationNotSent >>)

\* Form values of the model
NameValues == {<<" ">>, <<"a", " ">>}
MobileValues == {<<>>, <<"9">>}
AddressValues == {<<"s">>}
SectorValues == {<<"hotel", " ">>, <<"bogus">>}
LatitudeValues == {Missing, <<"1", ".", "5">>, <<"x">>}
LongitudeValues == {<<>>, <<"2">>}

BookForms ==
    [name : NameValues, mobile : MobileValues, address : AddressValues,
     sector : SectorValues, latitude : LatitudeValues,
     longitude : LongitudeValues, geo_address : {Missing}]

\* a request without a form
NoForm == [none |-> TRUE]

\* A request as the model records it
Request(op, method, form, world) ==
    [op |-> op, method |-> method, form |-> form, world |-> world]

\* GET /book, or POST /book: validate, insert and commit, then the sheet
\* and the notifications, then the advisories.
Book ==
    /\ Len(bookings) < MaxBookings
    /\ \/ /\ req' = Request("book", "GET", NoForm, NoWorld)
          /\ resp' = Render("book.html")
          /\ UNCHANGED <<bookings, notif>>
       \/ \E form \in BookForms :
            LET f == BookFields(form)
                rej == book_reject(f)
                ins == InsertBooking(bookings, f, sqlStrict)
            IN IF rej # NoResp
               THEN /\ req' = Request("book", "POST", form, NoWorld)
                    /\ resp' = rej
                    /\ UNCHANGED <<bookings, notif>>
               ELSE IF ~ins.ok
               THEN /\ req' = Request("book", "POST", form, NoWorld)
                    /\ resp' = ServerError
                    /\ UNCHANGED <<bookings, notif>>
               ELSE \E world \in Worlds :
                      LET sheet == write_to_google_sheet(world.env, world.sheetCall)
                          n == send_notifications(world.env, world.smtpCall,
                                                  world.twilioCall)
                      IN /\ req' = Request("book", "POST", form, world)
                         /\ bookings' = ins.table
                         /\ notif' = n
                         /\ resp' = IF sheet.raised \/ n.raised THEN ServerError
                                    ELSE book_done(sheet.ret, n.ret)
    /\ UNCHANGED <<sqlStrict, users, admins, listings, nextId, session,
                   db_ready, pc, initRuns, initActive>>

-----------------------------------------------------------------------------
(* The session, and the password hashes of werkzeug.security *)

\* session[key] = value
Put(f, k, v) == [x \in (DOMAIN f) \cup {k} |-> IF x = k THEN v ELSE f[x]]

\* session.pop(key, None)
Pop(f, k) == [x \in (DOMAIN f) \ {k} |-> f[x]]

\* session.clear()
EmptySession == << >>

\* session.get("admin_id") / session.get("user_id") is truthy
HasId(sess, key) == key \in DOMAIN sess /\ sess[key] # 0

Salts == {"k1", "k2"}

\* generate_password_hash(password) with the salt it drew
generate_password_hash(password, salt) == <<"pbkdf2", salt, password>>

\* check_password_hash(pwhash, password): hash the candidate with the
\* stored salt and compare
check_password_hash(pwhash, password) ==
    pwhash = generate_password_hash(password, pwhash[2])

\* row["email"] or row["mobile"]
EmailOrMobile(row) == IF Truthy(row.email) THEN row.email ELSE row.mobile

-----------------------------------------------------------------------------
(* register(), login(), logout() *)

ProvideCredentials == <<"Provide email or mobile and a password.", "error">>
AccountCreated == <<"Account created. Please log in.", "success">>
AlreadyRegistered == <<"Email or mobile already registered.", "error">>
EnterCredentials == <<"Please enter email/mobile and password.", "error">>
InvalidCredentials == <<"Invalid credentials.", "error">>
LoggedIn == <<"Logged in successfully.", "success">>
LoggedOut == <<"Logged out.", "success">>

\* the values register() reads from the form
RegisterFields(form) ==
    [email |-> OrNone(Strip(FormGet(form, "email", <<>>))),
     mobile |-> OrNone(Strip(FormGet(form, "mobile", <<>>))),
     password |-> Strip(FormGet(form, "password", <<>>))]

\* the validation of register(): TRUE when the submission is refused
register_reject(f) == ~(Truthy(f.email) \/ Truthy(f.mobile)) \/ ~Truthy(f.password)

\* the users table with no UNIQUE index on email
UniqueViolation_mobile_only(table, email, mobile) ==
    \E i \in 1..Len(table) : mobile # None /\ table[i].mobile = mobile

\* email VARCHAR(255) UNIQUE, mobile VARCHAR(32) UNIQUE: a UNIQUE index
\* refuses a value an existing row has in the same column; NULLs never
\* collide.
UniqueViolation(table, email, mobile) ==
    \E i \in 1..Len(table) :
        \/ email # None /\ table[i].email = email
        \/ mobile # None /\ table[i].mobile = mobile

\* INSERT INTO users ...; commit, or IntegrityError
InsertUser(table, f, salt) ==
    IF UniqueViolation(table, f.email, f.mobile)
    THEN [ok |-> FALSE, table |-> table]
    ELSE [ok |-> TRUE,
          table |-> Append(table,
                      [id |-> Len(table) + 1, email |-> f.email,
                       mobile |-> f.mobile,
                       password_hash |-> generate_password_hash(f.password, salt)])]

\* the values login() and admin_login() read from the form
LoginFields(form) ==
    [identifier |-> Strip(FormGet(form, "identifier", <<>>)),
     password |-> Strip(FormGet(form, "password", <<>>))]

\* SELECT * FROM <table> WHERE email = %s OR mobile = %s: the matching rows
Matching(table, identifier) ==
    {i \in 1..Len(table) :
        table[i].email = identifier \/ table[i].mobile = identifier}

\* cur.fetchone(): one of the matching rows (the statement has no ORDER BY),
\* or 0 for no row
FetchOne(rows) == IF rows = {} THEN {0} ELSE rows

\* `not user or not check_password_hash(user["password_hash"], password)`
bad_credentials(table, i, password) ==
    i = 0 \/ ~check_password_hash(table[i].password_hash, password)

\* login() with an advisory of its own for an identifier no account has
login_outcome_unknown_account(table, i, password, sess) ==
    IF i = 0
    THEN [resp |-> Redirect("login", <<<<"No account with that email or mobile.",
                                         "error">>>>),
          session |-> sess]
    ELSE IF bad_credentials(table, i, password)
    THEN [resp |-> Redirect("login", <<InvalidCredentials>>), session |-> sess]
    ELSE [resp |-> Redirect("index", <<LoggedIn>>),
          session |-> Put(Put(sess, "user_id", table[i].id),
                          "user_identifier", EmailOrMobile(table[i]))]

\* login() after the lookup: the generic rejection, or the session keys
\* and the redirect to the home page
login_outcome(table, i, password, sess) ==
    IF bad_credentials(table, i, password)
    THEN [resp |-> Redirect("login", <<InvalidCredentials>>), session |-> sess]
    ELSE [resp |-> Redirect("index", <<LoggedIn>>),
          session |-> Put(Put(sess, "user_id", table[i].id),
                          "user_identifier", EmailOrMobile(table[i]))]

EmailValues == {<<>>, <<"a">>, <<"7", " ">>}
MobileFieldValues == {<<>>, <<"7">>}
NewPasswordValues == {<<>>, <<"p">>}
PasswordValues == {<<>>, <<"p">>, <<"q">>}
IdentifierValues == {<<>>, <<"a">>, <<"7">>, <<"b">>}

RegisterForms ==
    [email : EmailValues, mobile : MobileFieldValues, password : NewPasswordValues]

LoginForms == [identifier : IdentifierValues, password : PasswordValues]

Register ==
    /\ Len(users) < MaxUsers
    /\ \E form \in RegisterForms, salt \in Salts :
         LET f == RegisterFields(form)
             ins == InsertUser(users, f, salt)
         IN /\ req' = Request("register", "POST", form, NoWorld)
            /\ IF register_reject(f)
               THEN /\ resp' = Redirect("login", <<ProvideCredentials>>)
                    /\ users' = users
               ELSE IF ins.ok
               THEN /\ resp' = Redirect("login", <<AccountCreated>>)
                    /\ users' = ins.table
               ELSE /\ resp' = Redirect("login", <<AlreadyRegistered>>)
                    /\ users' = users
    /\ UNCHANGED <<sqlStrict, admins, bookings, listings, nextId, session,
                   notif, db_ready, pc, initRuns, initActive>>

Login ==
    /\ \/ /\ req' = Request("login", "GET", NoForm, NoWorld)
          /\ resp' = Render("login.html")
          /\ session' = session
       \/ \E form \in LoginForms :
            LET f == LoginFields(form) IN
            /\ req' = Request("login", "POST", form, NoWorld)
            /\ IF ~Truthy(f.identifier) \/ ~Truthy(f.password)
               THEN /\ resp' = Redirect("login", <<EnterCredentials>>)
                    /\ session' = session
               ELSE \E i \in FetchOne(Matching(users, f.identifier)) :
                      /\ resp' = login_outcome(users, i, f.password, session).resp
                      /\ session' =
                            login_outcome(users, i, f.password, session).session
    /\ UNCHANGED <<sqlStrict, users, admins, bookings, listings, nextId,
                   notif, db_ready, pc, initRuns, initActive>>

Logout ==
    /\ req' = Request("logout", "GET", NoForm, NoWorld)
    /\ resp' = Redirect("index", <<LoggedOut>>)
    /\ session' = EmptySession
    /\ UNCHANGED <<sqlStrict, users, admins, bookings, listings, nextId,
                   notif, db_ready, pc, initRuns, initActive>>

-----------------------------------------------------------------------------
(* The sector tables *)

\* The weight of a character in the collation of the name column.  The
\* tables are created with no COLLATE clause, so the column has the server's
\* default collation, which is case-insensitive: "b" and "B" weigh the same.
Rank(c) ==
    CASE c = " " -> 0 [] c \in {"a", "A"} -> 1 [] c \in {"b", "B"} -> 2
      [] OTHER -> 3

\* a sorts before b in that collation
RECURSIVE StrLess(_, _)
StrLess(a, b) ==
    IF b = <<>> THEN FALSE
    ELSE IF a = <<>> THEN TRUE
    ELSE IF Rank(Head(a)) = Rank(Head(b)) THEN StrLess(Tail(a), Tail(b))
    ELSE Rank(Head(a)) < Rank(Head(b))

\* ORDER BY rating DESC alone
Ordered_rating_only(rows) ==
    \A i \in 1..Len(rows) : \A j \in 1..Len(rows) :
        i < j => ~DecimalGreater(rows[j].rating, rows[i].rating)

\* ORDER BY rating DESC, name ASC holds of rows
Ordered(rows) ==
    \A i \in 1..Len(rows) : \A j \in 1..Len(rows) :
        i < j => \/ DecimalGreater(rows[i].rating, rows[j].rating)
                 \/ /\ rows[i].rating = rows[j].rating
                    /\ ~StrLess(rows[j].name, rows[i].name)

\* the rearrangements of a table's rows
Rearrangements(table) ==
    LET n == Len(table)
        bij == {f \in [1..n -> 1..n] : \A i \in 1..n : \E j \in 1..n : f[j] = i}
    IN {[i \in 1..n |-> table[f[i]]] : f \in bij}

\* SELECT * FROM <table> ORDER BY rating DESC, name ASC: the results the
\* server may return (rows equal in rating and name come in any order)
SelectOrdered(table) == {rows \in Rearrangements(table) : Ordered(rows)}

\* the values the add and edit forms carry
ListingFields(form) ==
    [name |-> Strip(FormGet(form, "name", <<>>)),
     description |-> OrNone(Strip(FormGet(form, "description", <<>>))),
     rating |-> Strip(FormGet(form, "rating", <<>>)),
     contact |-> OrNone(Strip(FormGet(form, "contact", <<>>))),
     address |-> OrNone(Strip(FormGet(form, "address", <<>>)))]

ListingRow(id, f, rating) ==
    [id |-> id, name |-> f.name, description |-> f.description,
     rating |-> rating, contact |-> f.contact, address |-> f.address]

\* INSERT INTO sector_<key> ...; commit.  rating is DECIMAL(2,1) NOT NULL.
InsertListing(table, id, f, strict) ==
    LET r == StoreDecimal(f.rating, RATING_PRECISION, RATING_SCALE, strict) IN
    [ok |-> r.ok, table |-> Append(table, ListingRow(id, f, r.val))]

\* the positions of the rows WHERE id = listing_id
RowsWithId(table, listing_id) == {i \in 1..Len(table) : table[i].id = listing_id}

\* UPDATE sector_<key> SET ... WHERE id = %s; commit.  The values are
\* converted only for a row that matches.
UpdateListing(table, listing_id, f, strict) ==
    LET r == StoreDecimal(f.rating, RATING_PRECISION, RATING_SCALE, strict) IN
    IF RowsWithId(table, listing_id) = {} THEN [ok |-> TRUE, table |-> table]
    ELSE [ok |-> r.ok,
          table |-> [i \in 1..Len(table) |->
                       IF table[i].id = listing_id
                       THEN ListingRow(listing_id, f, r.val) ELSE table[i]]]

RECURSIVE Without(_, _)
Without(table, listing_id) ==
    IF table = <<>> THEN <<>>
    ELSE IF Head(table).id = listing_id THEN Without(Tail(table), listing_id)
    ELSE <<Head(table)>> \o Without(Tail(table), listing_id)

\* DELETE FROM sector_<key> WHERE id = %s; commit
DeleteListing(table, listing_id) == Without(table, listing_id)

-----------------------------------------------------------------------------
(* The admin scope *)

InvalidAdminCredentials == <<"Invalid admin credentials.", "error">>
AdminLoggedIn == <<"Admin logged in.", "success">>
AdminLoggedOut == <<"Admin logged out.", "success">>
UnknownSector == <<"Unknown sector.", "error">>
NameAndRatingRequired == <<"Name and rating are required.", "error">>
ListingAdded == <<"Listing added.", "success">>
ListingUpdated == <<"Listing updated.", "success">>
ListingNotFound == <<"Listing not found.", "error">>
ListingDeleted == <<"Listing deleted.", "success">>

\* admin_login() after the lookup
admin_login_outcome(table, i, password, sess) ==
    IF bad_credentials(table, i, password)
    THEN [resp |-> Redirect("admin_login", <<InvalidAdminCredentials>>),
          session |-> sess]
    ELSE [resp |-> Redirect("admin_dashboard", <<AdminLoggedIn>>),
          session |-> Put(Put(sess, "admin_id", table[i].id),
                          "admin_identifier", EmailOrMobile(table[i]))]

\* admin_required() without its check
admin_required_absent(sess) == NoResp

\* admin_required(): the redirect, or NoResp for None
admin_required(sess) ==
    IF ~HasId(sess, "admin_id") THEN Redirect("admin_login", <<>>) ELSE NoResp

\* the validation of admin_add_listing: TRUE when the submission is refused
add_reject(f) == ~Truthy(f.name) \/ ~Truthy(f.rating)

\* what the POST branch of admin_edit_listing checks before its UPDATE:
\* nothing
edit_reject(f) == FALSE

\* request.args.get("sector", SECTORS[0][0]), replaced when unknown
dashboard_sector(arg) ==
    LET k == IF arg = Missing THEN <<SECTORS[1][1]>> ELSE arg
    IN IF k \notin SECTOR_TABLES THEN <<SECTORS[1][1]>> ELSE k

AdminIdentifierValues == {<<>>, <<"r">>, <<"b">>}
AdminPasswordValues == {<<"p">>, <<"q">>}
AdminLoginForms ==
    [identifier : AdminIdentifierValues, password : AdminPasswordValues]
SectorKeyValues == {<<"hotel">>, <<"bogus">>}
ListingNameValues == {<<" ">>, <<"a", " ">>, <<"b">>}
RatingValues == {<<>>, <<"4">>, <<"4", ".", "5">>}
ListingForms ==
    [name : ListingNameValues, rating : RatingValues, description : {Missing},
     contact : {Missing}, address : {Missing}]
ListingIds == 1..MaxListings

\* a request to a route with a sector key (and a listing id, or 0)
AdminRequest(op, method, sector_key, listing_id, form) ==
    [op |-> op, method |-> method, form |-> form, world |-> NoWorld,
     sector_key |-> sector_key, listing_id |-> listing_id]

AdminLogin ==
    /\ \/ /\ req' = Request("admin_login", "GET", NoForm, NoWorld)
          /\ resp' = Render("admin_login.html")
          /\ session' = session
       \/ \E form \in AdminLoginForms :
            LET f == LoginFields(form) IN
            /\ req' = Request("admin_login", "POST", form, NoWorld)
            /\ \E i \in FetchOne(Matching(admins, f.identifier)) :
                 /\ resp' = admin_login_outcome(admins, i, f.password, session).resp
                 /\ session' =
                       admin_login_outcome(admins, i, f.password, session).session
    /\ UNCHANGED <<sqlStrict, users, admins, bookings, listings, nextId,
                   notif, db_ready, pc, initRuns, initActive>>

AdminLogout ==
    /\ req' = Request("admin_logout", "GET", NoForm, NoWorld)
    /\ resp' = Redirect("index", <<AdminLoggedOut>>)
    /\ session' = Pop(Pop(session, "admin_id"), "admin_identifier")
    /\ UNCHANGED <<sqlStrict, users, admins, bookings, listings, nextId,
                   notif, db_ready, pc, initRuns, initActive>>

AdminDashboard ==
    /\ \E arg \in SectorKeyValues \cup {Missing} :
         /\ req' = AdminRequest("admin_dashboard", "GET", arg, 0, NoForm)
         /\ IF admin_required(session) # NoResp
            THEN resp' = admin_required(session)
            ELSE \E rows \in SelectOrdered(listings[dashboard_sector(arg)]) :
                   resp' = RenderRows("admin_dashboard.html",
                                      dashboard_sector(arg), rows)
    /\ UNCHANGED <<sqlStrict, users, admins, bookings, listings, nextId, session,
                   notif, db_ready, pc, initRuns, initActive>>

AdminAddListing ==
    /\ \E sector_key \in SectorKeyValues, form \in ListingForms :
         LET f == ListingFields(form) IN
         /\ req' = AdminRequest("admin_add_listing", "POST", sector_key, 0, form)
         /\ IF admin_required(session) # NoResp
            THEN /\ resp' = admin_required(session)
                 /\ UNCHANGED <<listings, nextId>>
            ELSE IF sector_key \notin SECTOR_TABLES
            THEN /\ resp' = Redirect("admin_dashboard", <<UnknownSector>>)
                 /\ UNCHANGED <<listings, nextId>>
            ELSE IF add_reject(f)
            THEN /\ resp' = RedirectSector("admin_dashboard", sector_key,
                                           <<NameAndRatingRequired>>)
                 /\ UNCHANGED <<listings, nextId>>
            ELSE LET ins == InsertListing(listings[sector_key],
                                          nextId[sector_key], f, sqlStrict)
                 IN /\ nextId[sector_key] <= MaxListings
                    /\ IF ins.ok
                       THEN /\ resp' = RedirectSector("admin_dashboard", sector_key,
                                                      <<ListingAdded>>)
                            /\ listings' = [listings EXCEPT ![sector_key] = ins.table]
                            /\ nextId' = [nextId EXCEPT ![sector_key] = @ + 1]
                       ELSE /\ resp' = ServerError
                            /\ UNCHANGED <<listings, nextId>>
    /\ UNCHANGED <<sqlStrict, users, admins, bookings, session,
                   notif, db_ready, pc, initRuns, initActive>>

AdminEditListing ==
    /\ \E sector_key \in SectorKeyValues, listing_id \in ListingIds :
         LET guard == admin_required(session)
             table == listings[sector_key]
         IN
         \/ /\ req' = AdminRequest("admin_edit_listing", "GET", sector_key,
                                   listing_id, NoForm)
            /\ listings' = listings
            /\ IF guard # NoResp THEN resp' = guard
               ELSE IF sector_key \notin SECTOR_TABLES
               THEN resp' = Redirect("admin_dashboard", <<UnknownSector>>)
               ELSE IF RowsWithId(table, listing_id) = {}
               THEN resp' = RedirectSector("admin_dashboard", sector_key,
                                           <<ListingNotFound>>)
               ELSE \E i \in RowsWithId(table, listing_id) :
                      resp' = RenderRows("admin_edit.html", sector_key, <<table[i]>>)
         \/ \E form \in ListingForms :
              LET f == ListingFields(form) IN
              /\ req' = AdminRequest("admin_edit_listing", "POST", sector_key,
                                     listing_id, form)
              /\ IF guard # NoResp
                 THEN /\ resp' = guard
                      /\ listings' = listings
                 ELSE IF sector_key \notin SECTOR_TABLES
                 THEN /\ resp' = Redirect("admin_dashboard", <<UnknownSector>>)
                      /\ listings' = listings
                 ELSE IF edit_reject(f)
                 THEN /\ resp' = RedirectSector("admin_dashboard", sector_key,
                                                <<NameAndRatingRequired>>)
                      /\ listings' = listings
                 ELSE LET upd == UpdateListing(table, listing_id, f, sqlStrict) IN
                      IF upd.ok
                      THEN /\ resp' = RedirectSector("admin_dashboard", sector_key,
                                                     <<ListingUpdated>>)
                           /\ listings' = [listings EXCEPT ![sector_key] = upd.table]
                      ELSE /\ resp' = ServerError
                           /\ listings' = listings
    /\ UNCHANGED <<sqlStrict, users, admins, bookings, nextId, session,
                   notif, db_ready, pc, initRuns, initActive>>

AdminDeleteListing ==
    /\ \E sector_key \in SectorKeyValues, listing_id \in ListingIds :
         /\ req' = AdminRequest("admin_delete_listing", "POST", sector_key,
                                listing_id, NoForm)
         /\ IF admin_required(session) # NoResp
            THEN /\ resp' = admin_required(session)
                 /\ listings' = listings
            ELSE IF sector_key \notin SECTOR_TABLES
            THEN /\ resp' = Redirect("admin_dashboard", <<UnknownSector>>)
                 /\ listings' = listings
            ELSE /\ resp' = RedirectSector("admin_dashboard", sector_key,
                                           <<ListingDeleted>>)
                 /\ listings' = [listings EXCEPT
                                   ![sector_key] = DeleteListing(@, listing_id)]
    /\ UNCHANGED <<sqlStrict, users, admins, bookings, nextId, session,
                   notif, db_ready, pc, initRuns, initActive>>

\* GET /sector/<sector_key>, the public view
Sector ==
    /\ \E sector_key \in SectorKeyValues :
         /\ req' = AdminRequest("sector", "GET", sector_key, 0, NoForm)
         /\ IF sector_key \notin SECTOR_TABLES
            THEN resp' = Redirect("index", <<UnknownSector>>)
            ELSE \E rows \in SelectOrdered(listings[sector_key]) :
                   resp' = RenderRows("sector.html", sector_key, rows)
    /\ UNCHANGED <<sqlStrict, users, admins, bookings, listings, nextId, session,
                   notif, db_ready, pc, initRuns, initActive>>

-----------------------------------------------------------------------------
(* init_db() and ensure_db() *)

SeedEmails == {None, <<"r">>}
SeedPasswords == {None, <<"p">>}

\* The end of init_db(): with ADMIN_SEED_EMAIL and ADMIN_SEED_PASSWORD set
\* and no admin yet, insert the seed admin.  (The CREATE TABLE IF NOT EXISTS
\* statements before it leave existing tables as they are.)
init_db_seed(table, admin_email, admin_password, salt) ==
    IF Truthy(admin_email) /\ Truthy(admin_password) /\ Len(table) = 0
    THEN Append(table, [id |-> 1, email |-> admin_email, mobile |-> None,
                        password_hash |->
                            generate_password_hash(admin_password, salt)])
    ELSE table

Threads == 1..MaxRequests

\* The tables as CREATE TABLE IF NOT EXISTS makes them
EmptyTables ==
    /\ users = <<>>
    /\ bookings = <<>>
    /\ listings = [k \in SECTOR_TABLES |-> <<>>]
    /\ nextId = [k \in SECTOR_TABLES |-> 1]

\* The process after the module is loaded: _db_ready = False.  Started as
\* a script, init_db() has already run once from the __main__ block.
InitProcess ==
    /\ sqlStrict \in BOOLEAN
    /\ EmptyTables
    /\ session = EmptySession
    /\ req = Request("none", "GET", NoForm, NoWorld)
    /\ resp = NoResp
    /\ notif = NoNotif
    /\ db_ready = FALSE
    /\ pc = [t \in Threads |-> "start"]
    /\ initActive = {}
    /\ \/ /\ initRuns = 0
          /\ admins = <<>>
       \/ /\ initRuns = 1
          /\ \E e \in SeedEmails, p \in SeedPasswords, salt \in Salts :
               admins = init_db_seed(<<>>, e, p, salt)

\* The process once a first request has passed ensure_db, for the given
\* sql_mode settings and admin seed values
Serving(stricts, seedEmails, seedPasswords, salts) ==
    /\ sqlStrict \in stricts
    /\ EmptyTables
    /\ \E e \in seedEmails, p \in seedPasswords, salt \in salts :
         admins = init_db_seed(<<>>, e, p, salt)
    /\ session = EmptySession
    /\ req = Request("none", "GET", NoForm, NoWorld)
    /\ resp = NoResp
    /\ notif = NoNotif
    /\ db_ready = TRUE
    /\ pc = [t \in Threads |-> "done"]
    /\ initRuns = 1
    /\ initActive = {}

\* booking intake and the notifiers read no account
InitBooking == Serving(BOOLEAN, {None}, {None}, {"k1"})

\* the login scopes bind no DECIMAL column
InitAuth == Serving({TRUE}, SeedEmails, {<<"p">>}, {"k1"})

InitAdmin == Serving(BOOLEAN, {<<"r">>}, {<<"p">>}, {"k1"})


InitNotify == Serving({TRUE}, {None}, {None}, {"k1"})

\* ensure_db, line 137: read _db_ready
EnsureDbCheck(t) ==
    /\ pc[t] = "start"
    /\ pc' = [pc EXCEPT ![t] = IF ~db_ready THEN "init_db" ELSE "handler"]
    /\ UNCHANGED <<sqlStrict, users, admins, bookings, listings, nextId, session,
                   req, resp, notif, db_ready, initRuns, initActive>>

\* ensure_db, line 138: enter init_db()
InitDbBegin(t) ==
    /\ pc[t] = "init_db"
    /\ initRuns' = initRuns + 1
    /\ initActive' = initActive \cup {t}
    /\ pc' = [pc EXCEPT ![t] = "in_init_db"]
    /\ UNCHANGED <<sqlStrict, users, admins, bookings, listings, nextId, session,
                   req, resp, notif, db_ready>>

\* init_db() creates what is missing, seeds the admin and returns
InitDbEnd(t) ==
    /\ pc[t] = "in_init_db"
    /\ \E e \in SeedEmails, p \in SeedPasswords, salt \in Salts :
         admins' = init_db_seed(admins, e, p, salt)
    /\ initActive' = initActive \ {t}
    /\ pc' = [pc EXCEPT ![t] = "set_ready"]
    /\ UNCHANGED <<sqlStrict, users, bookings, listings, nextId, session,
                   req, resp, notif, db_ready, initRuns>>

\* ensure_db, line 139: _db_ready = True
EnsureDbSet(t) ==
    /\ pc[t] = "set_ready"
    /\ db_ready' = TRUE
    /\ pc' = [pc EXCEPT ![t] = "handler"]
    /\ UNCHANGED <<sqlStrict, users, admins, bookings, listings, nextId, session,
                   req, resp, notif, initRuns, initActive>>

\* the request's view function runs (here the home page) and the thread
\* is done
Index(t) ==
    /\ pc[t] = "handler"
    /\ req' = [op |-> "index", method |-> "GET", form |-> NoForm,
               world |-> NoWorld, ready |-> db_ready, thread |-> t]
    /\ resp' = Render("index.html")
    /\ pc' = [pc EXCEPT ![t] = "done"]
    /\ UNCHANGED <<sqlStrict, users, admins, bookings, listings, nextId, session,
                   notif, db_ready, initRuns, initActive>>

-----------------------------------------------------------------------------
(* Specifications *)

NextStartup ==
    \E t \in Threads :
        \/ EnsureDbCheck(t)
        \/ InitDbBegin(t)
        \/ InitDbEnd(t)
        \/ EnsureDbSet(t)
        \/ Index(t)

NextBooking == Book

NextAuth == Register \/ Login \/ Logout \/ AdminLogin \/ AdminLogout

NextAdmin ==
    \/ AdminLogin
    \/ AdminLogout
    \/ Logout
    \/ AdminDashboard
    \/ AdminAddListing
    \/ AdminEditListing
    \/ AdminDeleteListing
    \/ Sector

\* concurrent first requests of a fresh process
SpecStartup == InitProcess /\ [][NextStartup]_vars

\* booking intake
SpecBooking == InitBooking /\ [][NextBooking]_vars

\* customer accounts and the two login scopes
SpecAuth == InitAuth /\ [][NextAuth]_vars

\* the admin scope and the sector tables
SpecAdmin == InitAdmin /\ [][NextAdmin]_vars

\* The sector views read a table whatever its content: the hotel table
\* holds up to MaxRows listings as the add and edit routes store them
\* (trimmed name, rating of one decimal place), ids in insertion order.
\* The visitor is anonymous, or the seed admin after admin_login.
MaxRows == 3
StoredNames == {<<"a">>, <<"a", "b">>, <<"B">>}
StoredRatings == {Decimal(<<"4">>, RATING_SCALE),
                  Decimal(<<"4", ".", "5">>, RATING_SCALE)}
StoredListings ==
    UNION {[1..n -> [name : StoredNames, rating : StoredRatings]] :
             n \in 0..MaxRows}
StoredTable(content) ==
    [i \in 1..Len(content) |->
        ListingRow(i, [name |-> content[i].name, description |-> None,
                       contact |-> None, address |-> None],
                   content[i].rating)]

InitListing ==
    /\ sqlStrict = TRUE
    /\ users = <<>>
    /\ bookings = <<>>
    /\ \E content \in StoredListings :
         /\ listings = [k \in SECTOR_TABLES |->
                          IF k = <<"hotel">> THEN StoredTable(content) ELSE <<>>]
         /\ nextId = [k \in SECTOR_TABLES |->
                        IF k = <<"hotel">> THEN Len(content) + 1 ELSE 1]
    /\ admins = init_db_seed(<<>>, <<"r">>, <<"p">>, "k1")
    /\ session \in {EmptySession,
                    admin_login_outcome(admins, 1, <<"p">>, EmptySession).session}
    /\ req = Request("none", "GET", NoForm, NoWorld)
    /\ resp = NoResp
    /\ notif = NoNotif
    /\ db_ready = TRUE
    /\ pc = [t \in Threads |-> "done"]
    /\ initRuns = 1
    /\ initActive = {}

NextListing == Sector \/ AdminDashboard

SpecListing == InitListing /\ [][NextListing]_vars

\* send_notifications over every environment
Notify ==
    /\ notif = NoNotif
    /\ \E env \in SUBSET (EmailKeys \cup SmsKeys), smtpCall \in Calls,
          twilioCall \in Calls :
         notif' = send_notifications(env, smtpCall, twilioCall)
    /\ UNCHANGED <<sqlStrict, users, admins, bookings, listings, nextId, session,
                   req, resp, db_ready, pc, initRuns, initActive>>

SpecNotify == InitNotify /\ [][Notify]_vars

-----------------------------------------------------------------------------
(* Properties of booking intake (SpecBooking) *)

\* the step handles a POST to book()
BookPost == req'.op = "book" /\ req'.method = "POST"

\* the submission's trimmed name, mobile and address are non-empty and its
\* sector key is known
RequiredFieldsPresent(form) ==
    LET f == BookFields(form) IN
    /\ f.name # <<>> /\ f.mobile # <<>> /\ f.address # <<>>
    /\ f.sector_key \in SECTOR_TABLES

\* latitude or longitude is missing or empty
CoordinateMissing(form) ==
    \/ form.latitude \in {Missing, <<>>}
    \/ form.longitude \in {Missing, <<>>}

\* table2 is table1 with exactly one more row
OneRowAdded(table1, table2) ==
    /\ Len(table2) = Len(table1) + 1
    /\ SubSeq(table2, 1, Len(table1)) = table1

\* the row carries the submitted values: the trimmed texts, and the numbers
\* the two coordinate strings denote
RowOfForm(row, form) ==
    /\ row.name = Strip(form.name)
    /\ row.mobile = Strip(form.mobile)
    /\ row.address = Strip(form.address)
    /\ row.sector_key = Strip(form.sector)
    /\ IsDecimalLiteral(form.latitude)
    /\ row.latitude = Decimal(form.latitude, LAT_SCALE)
    /\ IsDecimalLiteral(form.longitude)
    /\ row.longitude = Decimal(form.longitude, LAT_SCALE)

\* C1: every POST to book() with non-empty trimmed name, mobile and address,
\* a known sector key and both coordinates non-empty inserts exactly one
\* row with those values, whatever the sheet and the notifiers do.
C1_OneRowPerValidSubmission ==
    [][ (BookPost /\ RequiredFieldsPresent(req'.form)
            /\ ~CoordinateMissing(req'.form))
        => /\ OneRowAdded(bookings, bookings')
           /\ RowOfForm(bookings'[Len(bookings')], req'.form) ]_vars

\* C2 as stated: a submission with a coordinate missing or empty persists
\* no row and gets the location-required advisory, whatever its other
\* fields are.
C2_LocationAdvisoryAlways ==
    [][ (BookPost /\ CoordinateMissing(req'.form))
        => /\ bookings' = bookings
           /\ resp' = Redirect("book", <<LocationRequired>>) ]_vars

\* C2 amended: a submission with a coordinate missing or empty persists no
\* row; it gets the location-required advisory when its trimmed name,
\* mobile and address are non-empty and its sector key is known, and the
\* fill-all-fields advisory otherwise.
C2_NoRowWithoutLocation ==
    [][ (BookPost /\ CoordinateMissing(req'.form))
        => /\ bookings' = bookings
           /\ resp' = IF RequiredFieldsPresent(req'.form)
                      THEN Redirect("book", <<LocationRequired>>)
                      ELSE Redirect("book", <<FillAllFields>>) ]_vars

\* C2 witness: a complete submission without its latitude, after an earlier
\* booking, was answered with the location advisory
C2_Witness ==
    /\ req.op = "book" /\ req.method = "POST"
    /\ RequiredFieldsPresent(req.form)
    /\ req.form.latitude = Missing
    /\ req.form.longitude # <<>>
    /\ resp = Redirect("book", <<LocationRequired>>)
    /\ Len(bookings) = 1

\* the advisories of the application that name the sector as the problem
SectorAdvisories == {UnknownSector}

\* C3: a submission whose sector key is not one of the ten persists no row
\* and gets an advisory that names the sector as the problem.
C3_UnknownSectorAdvisory ==
    [][ (BookPost /\ Strip(req'.form.sector) \notin SECTOR_TABLES)
        => /\ bookings' = bookings
           /\ \E i \in 1..Len(resp'.flashes) : resp'.flashes[i] \in SectorAdvisories
      ]_vars

-----------------------------------------------------------------------------
(* Properties of the admin scope (SpecAdmin) *)

AdminOps == {"admin_dashboard", "admin_add_listing", "admin_edit_listing",
             "admin_delete_listing"}

\* the step handles a create or an update
ListingPost ==
    /\ req'.op \in {"admin_add_listing", "admin_edit_listing"}
    /\ req'.method = "POST"

\* no row of any sector table has an empty name or no rating
NamesAndRatingsPresent(tables) ==
    \A k \in SECTOR_TABLES : \A i \in 1..Len(tables[k]) :
        tables[k][i].name # <<>> /\ tables[k][i].rating # SqlNull

\* C4: no row of a sector table ever has an empty name or rating, and a
\* create or update submitted with an empty trimmed name or rating is
\* rejected and leaves the tables unchanged.
C4_NameAndRatingRequired ==
    [][ /\ NamesAndRatingsPresent(listings')
        /\ (ListingPost /\ (Strip(req'.form.name) = <<>>
                            \/ Strip(req'.form.rating) = <<>>))
           => /\ listings' = listings
              /\ resp'.flashes \notin {<<ListingAdded>>, <<ListingUpdated>>}
      ]_vars

\* C5: without an admin id in the session, a request to the dashboard or to
\* add, edit or delete gets the redirect to the admin login and changes no
\* sector table; a sector table changes only in a create, update or delete
\* made with an admin id in the session; and an admin id enters the session
\* only in an admin_login that matched an admin row and its password.
C5_AdminGate ==
    [][ /\ (req'.op \in AdminOps /\ ~HasId(session, "admin_id"))
           => /\ resp' = Redirect("admin_login", <<>>)
              /\ listings' = listings
        /\ listings' # listings
           => /\ HasId(session, "admin_id")
              /\ req'.op \in AdminOps \ {"admin_dashboard"}
        /\ (HasId(session', "admin_id") /\ ~HasId(session, "admin_id"))
           => /\ req'.op = "admin_login" /\ req'.method = "POST"
              /\ resp' = Redirect("admin_dashboard", <<AdminLoggedIn>>)
              /\ \E i \in Matching(admins, Strip(req'.form.identifier)) :
                   /\ admins[i].id = session'["admin_id"]
                   /\ check_password_hash(admins[i].password_hash,
                                          Strip(req'.form.password))
      ]_vars

\* C5 witness: after a logout, a delete aimed at an existing row was
\* answered with the redirect to the admin login
C5_Witness ==
    /\ req.op = "admin_delete_listing"
    /\ req.sector_key \in SECTOR_TABLES
    /\ RowsWithId(listings[req.sector_key], req.listing_id) # {}
    /\ ~HasId(session, "admin_id")
    /\ resp = Redirect("admin_login", <<>>)

-----------------------------------------------------------------------------
(* Properties of the accounts (SpecAuth) *)

\* the identifiers the stored accounts answer to
StoredIdentifiers ==
    {users[i].email : i \in 1..Len(users)} \cup
    {users[i].mobile : i \in 1..Len(users)}

\* C6: for every identifier at most one customer account matches the login
\* lookup (email = identifier OR mobile = identifier).
C6_AtMostOneMatch ==
    \A v \in StoredIdentifiers \ {None} : Cardinality(Matching(users, v)) <= 1

\* the step handles a POST to login() with identifier and password given
LoginAttempt ==
    /\ req'.op = "login" /\ req'.method = "POST"
    /\ Strip(req'.form.identifier) # <<>>
    /\ Strip(req'.form.password) # <<>>

AdminLoginAttempt == req'.op = "admin_login" /\ req'.method = "POST"

\* no row of the table that answers to the form's identifier has the
\* form's password: the identifier is unknown, or the password is wrong
NoAccountAccepts(table, form) ==
    \A i \in Matching(table, Strip(form.identifier)) :
        ~check_password_hash(table[i].password_hash, Strip(form.password))

\* C7: a login() attempt that fails, with a stored identifier and a wrong
\* password or with an identifier no account has, gets one and the same
\* outcome: the advisory "Invalid credentials.", the redirect to the login
\* page and an untouched session; admin_login() likewise with its own
\* advisory.
C7_GenericRejection ==
    [][ /\ (LoginAttempt /\ (NoAccountAccepts(users, req'.form)
                             \/ resp' # Redirect("index", <<LoggedIn>>)))
           => /\ resp' = Redirect("login", <<InvalidCredentials>>)
              /\ session' = session
        /\ (AdminLoginAttempt
              /\ (NoAccountAccepts(admins, req'.form)
                  \/ resp' # Redirect("admin_dashboard", <<AdminLoggedIn>>)))
           => /\ resp' = Redirect("admin_login", <<InvalidAdminCredentials>>)
              /\ session' = session
      ]_vars

\* C7 witness: a stored identifier with a wrong password was answered with
\* the generic advisory
C7_Witness ==
    /\ req.op = "login" /\ req.method = "POST"
    /\ Matching(users, Strip(req.form.identifier)) # {}
    /\ Strip(req.form.password) # <<>>
    /\ NoAccountAccepts(users, req.form)
    /\ resp = Redirect("login", <<InvalidCredentials>>)

\* an existing account has the submitted email
EmailStored(table, f) ==
    f.email # None /\ \E i \in 1..Len(table) : table[i].email = f.email

\* the submitted email and mobile both differ from every stored account's
DiffersFromAll(table, f) ==
    \A i \in 1..Len(table) : table[i].email # f.email /\ table[i].mobile # f.mobile

\* a non-empty password and at least one of email and mobile
Registrable(f) == f.password # <<>> /\ (f.email # None \/ f.mobile # None)

\* every account has an email or a mobile
EmailOrMobilePresent(table) ==
    \A i \in 1..Len(table) : table[i].email # None \/ table[i].mobile # None

-----------------------------------------------------------------------------
(* Properties of the start (SpecStartup) *)

\* C9: init_db() is started at most once in the life of the process, and
\* no request handler runs while _db_ready is false.
C9_InitDbOnce ==
    /\ initRuns <= 1
    /\ \A t \in Threads : pc[t] = "handler" => db_ready

-----------------------------------------------------------------------------
(* Properties of the notifiers (SpecNotify) *)

\* C10: send_notifications returns true exactly when the email or the SMS
\* notifier has all of its configuration and its external call succeeds; a
\* notifier with a value absent returns false without attempting its call;
\* one whose call fails returns false; no exception leaves any of them.
C10_NotifyResult ==
    notif # NoNotif
    => LET emailCfg == EmailKeys \subseteq notif.env
           smsCfg == SmsKeys \subseteq notif.env
       IN /\ notif.ret <=> (\/ emailCfg /\ notif.smtpCall = "ok"
                            \/ smsCfg /\ notif.twilioCall = "ok")
          /\ ~emailCfg => ~notif.email.ret /\ ~notif.email.attempted
          /\ ~smsCfg => ~notif.sms.ret /\ ~notif.sms.attempted
          /\ (emailCfg /\ notif.smtpCall = "raise") => ~notif.email.ret
          /\ (smsCfg /\ notif.twilioCall = "raise") => ~notif.sms.ret
          /\ ~notif.raised /\ ~notif.email.raised /\ ~notif.sms.raised

\* C10 witness: both notifiers configured, both external calls attempted
\* and failing, and the result false
C10_Witness ==
    /\ EmailKeys \cup SmsKeys \subseteq notif.env
    /\ notif.smtpCall = "raise" /\ notif.twilioCall = "raise"
    /\ notif.email.attempted /\ notif.sms.attempted
    /\ ~notif.ret /\ ~notif.raised

-----------------------------------------------------------------------------
(* Properties of the sector views (SpecListing) *)

\* the step renders the rows of a sector table, in the public view or in
\* the admin dashboard
ListingView ==
    /\ req'.op \in {"sector", "admin_dashboard"}
    /\ resp'.page \in {"sector.html", "admin_dashboard.html"}

\* the sector whose table the request names: the dashboard falls back to
\* the first sector
ViewedSector ==
    IF req'.sector_key \in SECTOR_TABLES THEN req'.sector_key
    ELSE <<SECTORS[1][1]>>

\* how many times row r occurs in rows
Occurrences(rows, r) == Cardinality({i \in 1..Len(rows) : rows[i] = r})

\* rows holds the rows of table, each as often as the table does
PermutationOf(rows, table) ==
    /\ Len(rows) = Len(table)
    /\ \A i \in 1..Len(table) :
         Occurrences(rows, table[i]) = Occurrences(table, table[i])

\* row r may stand directly before row q: r has the higher rating, or the
\* same rating and a name that does not sort after q's
MayPrecede(r, q) ==
    \/ q.rating.units < r.rating.units
    \/ /\ q.rating.units = r.rating.units
       /\ q.rating.frac < r.rating.frac
    \/ /\ q.rating = r.rating
       /\ ~StrLess(q.name, r.name)

\* C11: for every sector key and every content of the sector's table, the
\* rows the public sector view and the admin dashboard return are a
\* permutation of the table's rows, ordered by rating descending, rows of
\* equal rating by name ascending.
C11_ListingOrder ==
    [][ListingView
        => /\ resp'.sector = ViewedSector
           /\ PermutationOf(resp'.rows, listings[ViewedSector])
           /\ \A i \in 1..(Len(resp'.rows) - 1) :
                MayPrecede(resp'.rows[i], resp'.rows[i + 1])]_vars

\* the names of rows, in order
NamesOf(rows) == [i \in 1..Len(rows) |-> rows[i].name]

\* C11 witness: the table holds (a, 4.0), (ab, 4.5), (B, 4.0) in that
\* order, and a view returned them as ab, a, B
C11_Witness ==
    /\ req.op \in {"sector", "admin_dashboard"}
    /\ resp.page \in {"sector.html", "admin_dashboard.html"}
    /\ Len(listings[<<"hotel">>]) = 3
    /\ NamesOf(listings[<<"hotel">>]) = <<<<"a">>, <<"a", "b">>, <<"B">>>>
    /\ listings[<<"hotel">>][1].rating = listings[<<"hotel">>][3].rating
    /\ DecimalGreater(listings[<<"hotel">>][2].rating,
                      listings[<<"hotel">>][1].rating)
    /\ NamesOf(resp.rows) = <<<<"a", "b">>, <<"a">>, <<"B">>>>
=============================================================================
